---- MODULE Spec2Model ----
(***************************************************************************)
(* A model of the in-memory contact manager of src/main.py: the field      *)
(* validators (Name, Phone, Birthday), Record, AddressBook, the            *)
(* input_error wrapper and the command handlers.                           *)
(*                                                                         *)
(* A character is a one-character string; a character outside ASCII is     *)
(* written by its code point ("U+0663").  A text (a Python str) is a       *)
(* sequence of characters.  A date is a record [y, m, d].                  *)
(***************************************************************************)
EXTENDS Integers, Sequences, FiniteSets, TLC

VARIABLES book, prevBook, lastCmd, lastResult

vars == <<book, prevBook, lastCmd, lastResult>>

(***************************************************************************)
(* Bounds of the model.                                                    *)
(***************************************************************************)
MaxPhones == 2
MaxPhoneInputLen == 11

(***************************************************************************)
(* Characters and texts.                                                   *)
(***************************************************************************)
AsciiDigits == {"0", "1", "2", "3", "4", "5", "6", "7", "8", "9"}

\* U+0663 ARABIC-INDIC DIGIT THREE: category Nd, str.isdigit() is True, \d matches it.
\* U+00B2 SUPERSCRIPT TWO: category No, str.isdigit() is True, \d does not match it.
UnicodeDecimals == {"U+0663"}
UnicodeDigits == {"U+0663", "U+00B2"}

DigitChars == <<"0", "1", "2", "3", "4", "5", "6", "7", "8", "9">>

DigitValue(c) ==
    IF c = "U+0663" THEN 3
    ELSE CHOOSE n \in 0..9 : DigitChars[n + 1] = c

\* str.isdigit() of one character
IsDigitChar(c) == c \in AsciiDigits \cup UnicodeDigits

\* the regular expression class \d on a str pattern (Unicode decimal digits)
IsDecimalChar(c) == c \in AsciiDigits \cup UnicodeDecimals

\* str.isdigit(): every character is a digit and there is at least one
isdigit(s) == Len(s) > 0 /\ \A i \in 1..Len(s) : IsDigitChar(s[i])

MsgNameEmpty == <<"N","a","m","e"," ","c","a","n","n","o","t"," ","b","e"," ","e","m","p","t","y">>
MsgPhoneInvalid == <<"P","h","o","n","e"," ","m","u","s","t"," ","c","o","n","t","a","i","n"," ","e","x","a","c","t","l","y"," ","1","0"," ","d","i","g","i","t","s">>
MsgDateInvalid == <<"I","n","v","a","l","i","d"," ","d","a","t","e"," ","f","o","r","m","a","t","."," ","U","s","e"," ","D","D",".","M","M",".","Y","Y","Y","Y">>
MsgContactAdded == <<"C","o","n","t","a","c","t"," ","a","d","d","e","d",".">>
MsgContactUpdated == <<"C","o","n","t","a","c","t"," ","u","p","d","a","t","e","d",".">>
MsgPhoneUpdated == <<"P","h","o","n","e"," ","u","p","d","a","t","e","d",".">>
MsgNoPhones == <<"N","o"," ","p","h","o","n","e","s"," ","f","o","u","n","d"," ","f","o","r"," ","t","h","i","s"," ","c","o","n","t","a","c","t",".">>
MsgBirthdayAdded == <<"B","i","r","t","h","d","a","y"," ","a","d","d","e","d",".">>
MsgNoBirthday == <<"N","o"," ","b","i","r","t","h","d","a","y"," ","s","e","t",".">>
MsgNoUpcoming == <<"N","o"," ","u","p","c","o","m","i","n","g"," ","b","i","r","t","h","d","a","y","s",".">>
MsgContactNotFound == <<"C","o","n","t","a","c","t"," ","n","o","t"," ","f","o","u","n","d",".">>
MsgNotEnoughArgs == <<"N","o","t"," ","e","n","o","u","g","h"," ","a","r","g","u","m","e","n","t","s",".">>
MsgBookEmpty == <<"A","d","d","r","e","s","s"," ","b","o","o","k"," ","i","s"," ","e","m","p","t","y">>
\* the message of the ValueError that date.replace raises for a day the month lacks
MsgDayOutOfRange == <<"d","a","y"," ","i","s"," ","o","u","t"," ","o","f"," ","r","a","n","g","e"," ","f","o","r"," ","m","o","n","t","h">>
TxtPhone == <<"P","h","o","n","e"," ">>
TxtNotFound == <<" ","n","o","t"," ","f","o","u","n","d">>
TxtContactName == <<"C","o","n","t","a","c","t"," ","n","a","m","e",":"," ">>
TxtPhones == <<","," ","p","h","o","n","e","s",":"," ">>
TxtBirthday == <<","," ","b","i","r","t","h","d","a","y",":"," ">>
TxtNotEnoughValues == <<"n","o","t"," ","e","n","o","u","g","h"," ","v","a","l","u","e","s"," ","t","o"," ","u","n","p","a","c","k"," ","(","e","x","p","e","c","t","e","d"," ">>
TxtGot == <<","," ","g","o","t"," ">>
TxtTooManyValues == <<"t","o","o"," ","m","a","n","y"," ","v","a","l","u","e","s"," ","t","o"," ","u","n","p","a","c","k"," ","(","e","x","p","e","c","t","e","d"," ">>
TxtErrorPrefix == <<"E","r","r","o","r",":"," ">>
SepPhones == <<";", " ">>
SepLines == <<"\n">>
SepNameDate == <<":", " ">>

\* str.join: the texts of parts with sep between neighbours
RECURSIVE join(_, _)
join(sep, parts) ==
    IF Len(parts) = 0 THEN <<>>
    ELSE IF Len(parts) = 1 THEN parts[1]
    ELSE parts[1] \o sep \o join(sep, Tail(parts))

(***************************************************************************)
(* Outcomes: a call returns a value or raises an exception with a message. *)
(***************************************************************************)
Return(v) == [exc |-> "none", val |-> v]
Raise(type, msg) == [exc |-> type, val |-> msg]

(***************************************************************************)
(* Calendar arithmetic of datetime.date.                                   *)
(***************************************************************************)
IsLeap(y) == (y % 4 = 0) /\ ((y % 100 # 0) \/ (y % 400 = 0))

DaysInMonth(y, m) ==
    IF m = 2 THEN (IF IsLeap(y) THEN 29 ELSE 28)
    ELSE IF m \in {4, 6, 9, 11} THEN 30 ELSE 31

\* the dates datetime.date can hold
IsDate(y, m, d) ==
    /\ y \in 1..9999
    /\ m \in 1..12
    /\ d >= 1
    /\ d <= DaysInMonth(y, m)

MkDate(y, m, d) == [y |-> y, m |-> m, d |-> d]

RECURSIVE DaysBeforeMonth(_, _)
DaysBeforeMonth(y, m) ==
    IF m = 1 THEN 0 ELSE DaysBeforeMonth(y, m - 1) + DaysInMonth(y, m - 1)

DaysBeforeYear(y) ==
    (y - 1) * 365 + ((y - 1) \div 4) - ((y - 1) \div 100) + ((y - 1) \div 400)

\* date.toordinal(): 1 for 0001-01-01
toordinal(dt) == DaysBeforeYear(dt.y) + DaysBeforeMonth(dt.y, dt.m) + dt.d

\* date.weekday(): Monday is 0, Saturday 5, Sunday 6
weekday(dt) == (toordinal(dt) + 6) % 7

NextDay(dt) ==
    IF dt.d < DaysInMonth(dt.y, dt.m) THEN MkDate(dt.y, dt.m, dt.d + 1)
    ELSE IF dt.m < 12 THEN MkDate(dt.y, dt.m + 1, 1)
    ELSE MkDate(dt.y + 1, 1, 1)

\* date + timedelta(days=k), k >= 0
RECURSIVE AddDays(_, _)
AddDays(dt, k) == IF k = 0 THEN dt ELSE AddDays(NextDay(dt), k - 1)

\* date < date
DateLess(a, b) ==
    \/ a.y < b.y
    \/ a.y = b.y /\ a.m < b.m
    \/ a.y = b.y /\ a.m = b.m /\ a.d < b.d

\* (a - b).days
DaysBetween(a, b) == toordinal(a) - toordinal(b)

\* date.replace(year=y): ValueError when the month lacks the day in year y
replace_year(dt, y) ==
    IF IsDate(y, dt.m, dt.d) THEN Return(MkDate(y, dt.m, dt.d))
    ELSE Raise("ValueError", MsgDayOutOfRange)

Pad2(n) == <<DigitChars[(n \div 10) + 1], DigitChars[(n % 10) + 1]>>

Pad4(n) ==
    <<DigitChars[(n \div 1000) + 1], DigitChars[((n \div 100) % 10) + 1],
      DigitChars[((n \div 10) % 10) + 1], DigitChars[(n % 10) + 1]>>

\* date.strftime("%d.%m.%Y") for a year of four digits
strftime(dt) == Pad2(dt.d) \o <<".">> \o Pad2(dt.m) \o <<".">> \o Pad4(dt.y)

(***************************************************************************)
(* datetime.strptime(value, "%d.%m.%Y").  The format compiles to the       *)
(* regular expression                                                      *)
(*   (3[0-1]|[1-2]\d|0[1-9]|[1-9]| [1-9])\.(1[0-2]|0[1-9]|[1-9])\.(\d\d\d\d)*)
(* which must match the whole value; the three groups are converted by     *)
(* int() and must form a date.                                             *)
(***************************************************************************)
Dots(s) == {i \in 1..Len(s) : s[i] = "."}

Pos19 == AsciiDigits \ {"0"}

MatchDay(t) ==
    \/ Len(t) = 2 /\ t[1] = "3" /\ t[2] \in {"0", "1"}
    \/ Len(t) = 2 /\ t[1] \in {"1", "2"} /\ IsDecimalChar(t[2])
    \/ Len(t) = 2 /\ t[1] = "0" /\ t[2] \in Pos19
    \/ Len(t) = 1 /\ t[1] \in Pos19
    \/ Len(t) = 2 /\ t[1] = " " /\ t[2] \in Pos19

MatchMonth(t) ==
    \/ Len(t) = 2 /\ t[1] = "1" /\ t[2] \in {"0", "1", "2"}
    \/ Len(t) = 2 /\ t[1] = "0" /\ t[2] \in Pos19
    \/ Len(t) = 1 /\ t[1] \in Pos19

MatchYear(t) == Len(t) = 4 /\ \A i \in 1..4 : IsDecimalChar(t[i])

\* int() of a matched group: surrounding blanks are ignored
RECURSIVE IntOf(_)
IntOf(t) ==
    IF Len(t) = 0 THEN 0
    ELSE IF t[Len(t)] = " " THEN IntOf(SubSeq(t, 1, Len(t) - 1))
    ELSE IF t[1] = " " THEN IntOf(Tail(t))
    ELSE 10 * IntOf(SubSeq(t, 1, Len(t) - 1)) + DigitValue(t[Len(t)])

strptime(value) ==
    IF Cardinality(Dots(value)) # 2 THEN Raise("ValueError", <<>>)
    ELSE
        LET i == CHOOSE k \in Dots(value) : \A j \in Dots(value) : k <= j
            j == CHOOSE k \in Dots(value) : k # i
            dd == SubSeq(value, 1, i - 1)
            mm == SubSeq(value, i + 1, j - 1)
            yy == SubSeq(value, j + 1, Len(value))
        IN  IF ~(MatchDay(dd) /\ MatchMonth(mm) /\ MatchYear(yy))
            THEN Raise("ValueError", <<>>)
            ELSE IF ~IsDate(IntOf(yy), IntOf(mm), IntOf(dd))
            THEN Raise("ValueError", <<>>)
            ELSE Return(MkDate(IntOf(yy), IntOf(mm), IntOf(dd)))

(***************************************************************************)
(* Fields.  A constructor returns the stored value or raises ValueError.   *)
(***************************************************************************)
PhoneLen == 10

\* Name.__init__
Name(value) ==
    IF value = <<>> THEN Raise("ValueError", MsgNameEmpty) ELSE Return(value)

\* Phone.__init__
Phone(value) ==
    IF ~isdigit(value) \/ Len(value) # PhoneLen
    THEN Raise("ValueError", MsgPhoneInvalid)
    ELSE Return(value)

\* Birthday.__init__
Birthday(value) ==
    IF strptime(value).exc = "ValueError"
    THEN Raise("ValueError", MsgDateInvalid)
    ELSE Return(value)

\* Birthday.date_obj
date_obj(value) == strptime(value)

(***************************************************************************)
(* Record: name, phones (in order, duplicates kept), optional birthday.    *)
(* A method returns [rec, exc, msg]: the record after the call and the     *)
(* exception it raised ("none" when it returned).                          *)
(***************************************************************************)
NoBirthday == [set |-> FALSE, value |-> <<>>]

SomeBirthday(v) == [set |-> TRUE, value |-> v]

\* Record.__init__ after Name(name) succeeded
NewRecord(name) == [name |-> name, phones |-> <<>>, birthday |-> NoBirthday]

RecOk(rec) == [rec |-> rec, exc |-> "none", msg |-> <<>>]
RecRaise(rec, o) == [rec |-> rec, exc |-> o.exc, msg |-> o.val]

\* Record.find_phone: the position of the first phone whose value is phone,
\* 0 for None.  Every Phone object is in the list once, so its position
\* identifies it.
find_phone(rec, phone) ==
    IF \E i \in 1..Len(rec.phones) : rec.phones[i] = phone
    THEN CHOOSE i \in 1..Len(rec.phones) :
            /\ rec.phones[i] = phone
            /\ \A j \in 1..(i - 1) : rec.phones[j] # phone
    ELSE 0

\* list.remove / del list[i]
RemoveAt(s, i) == SubSeq(s, 1, i - 1) \o SubSeq(s, i + 1, Len(s))

\* add_phone with a bug: a phone the record already holds is not added again
add_phone_dedup(rec, phone) ==
    LET p == Phone(phone)
    IN  IF p.exc # "none" THEN RecRaise(rec, p)
        ELSE IF find_phone(rec, p.val) # 0 THEN RecOk(rec)
        ELSE RecOk([rec EXCEPT !.phones = Append(@, p.val)])

\* Record.add_phone
add_phone(rec, phone) ==
    LET p == Phone(phone)
    IN  IF p.exc # "none" THEN RecRaise(rec, p)
        ELSE RecOk([rec EXCEPT !.phones = Append(@, p.val)])

\* remove_phone with a bug: every phone of that value is removed
remove_phone_all(rec, phone) ==
    RecOk([rec EXCEPT !.phones = SelectSeq(@, LAMBDA x : x # phone)])

\* Record.remove_phone
remove_phone(rec, phone) ==
    LET i == find_phone(rec, phone)
    IN  IF i # 0 THEN RecOk([rec EXCEPT !.phones = RemoveAt(@, i)])
        ELSE RecOk(rec)

\* edit_phone with a bug: the new phone is validated before the old one is
\* looked up
edit_phone_validate_first(rec, old_phone, new_phone) ==
    LET i == find_phone(rec, old_phone)
        new_ph == Phone(new_phone)
    IN  IF new_ph.exc # "none" THEN RecRaise(rec, new_ph)
        ELSE IF i = 0
        THEN RecRaise(rec, Raise("ValueError", TxtPhone \o old_phone \o TxtNotFound))
        ELSE RecOk([rec EXCEPT !.phones[i] = new_ph.val])

\* Record.edit_phone
edit_phone(rec, old_phone, new_phone) ==
    LET i == find_phone(rec, old_phone)
    IN  IF i = 0
        THEN RecRaise(rec, Raise("ValueError", TxtPhone \o old_phone \o TxtNotFound))
        ELSE LET new_ph == Phone(new_phone)
             IN  IF new_ph.exc # "none" THEN RecRaise(rec, new_ph)
                 ELSE RecOk([rec EXCEPT !.phones[i] = new_ph.val])

\* add_birthday with a bug: the old birthday is dropped before the new one is
\* validated
rec_add_birthday_clear(rec, birthday) ==
    LET b == Birthday(birthday)
    IN  IF b.exc # "none" THEN RecRaise([rec EXCEPT !.birthday = NoBirthday], b)
        ELSE RecOk([rec EXCEPT !.birthday = SomeBirthday(b.val)])

\* Record.add_birthday
rec_add_birthday(rec, birthday) ==
    LET b == Birthday(birthday)
    IN  IF b.exc # "none" THEN RecRaise(rec, b)
        ELSE RecOk([rec EXCEPT !.birthday = SomeBirthday(b.val)])

\* Record.__str__
record_str(rec) ==
    TxtContactName \o rec.name \o TxtPhones \o join(SepPhones, rec.phones)
        \o (IF rec.birthday.set THEN TxtBirthday \o rec.birthday.value ELSE <<>>)

(***************************************************************************)
(* AddressBook: a dict, modelled as the sequence of its items              *)
(* [key, rec] in insertion order.                                          *)
(***************************************************************************)
KeyIndex(data, key) ==
    IF \E i \in 1..Len(data) : data[i].key = key
    THEN CHOOSE i \in 1..Len(data) : data[i].key = key
    ELSE 0

\* add_record with a bug: the item is appended even when the key is present
add_record_append(data, record) ==
    Append(data, [key |-> record.name, rec |-> record])

\* AddressBook.add_record: data[record.name.value] = record
add_record(data, record) ==
    LET i == KeyIndex(data, record.name)
    IN  IF i # 0 THEN [data EXCEPT ![i] = [key |-> record.name, rec |-> record]]
        ELSE Append(data, [key |-> record.name, rec |-> record])

\* AddressBook.find: the position of the item, 0 for None
find(data, name) == KeyIndex(data, name)

\* AddressBook.delete
delete(data, name) ==
    IF KeyIndex(data, name) # 0 THEN RemoveAt(data, KeyIndex(data, name)) ELSE data

\* adjust_for_weekend
adjust_for_weekend(dt) ==
    IF weekday(dt) = 5 THEN AddDays(dt, 2)
    ELSE IF weekday(dt) = 6 THEN AddDays(dt, 1)
    ELSE dt

\* the body of the loop of get_upcoming_birthdays for one record: the list
\* after it, or the ValueError of date.replace
UpcomingStep(acc, rec, days, today) ==
    IF ~rec.birthday.set THEN Return(acc)
    ELSE
        LET bday == date_obj(rec.birthday.value).val
            this == replace_year(bday, today.y)
        IN  IF this.exc # "none" THEN this
            ELSE
                LET next == IF DateLess(this.val, today)
                            THEN replace_year(this.val, today.y + 1)
                            ELSE this
                IN  IF next.exc # "none" THEN next
                    ELSE IF /\ 0 <= DaysBetween(next.val, today)
                            /\ DaysBetween(next.val, today) <= days
                    THEN Return(Append(acc,
                            [name |-> rec.name,
                             birthday |-> strftime(adjust_for_weekend(next.val))]))
                    ELSE Return(acc)

RECURSIVE UpcomingLoop(_, _, _, _, _)
UpcomingLoop(data, i, acc, days, today) ==
    IF i > Len(data) THEN Return(acc)
    ELSE LET r == UpcomingStep(acc, data[i].rec, days, today)
         IN  IF r.exc # "none" THEN r
             ELSE UpcomingLoop(data, i + 1, r.val, days, today)

\* AddressBook.get_upcoming_birthdays, today being date.today()
get_upcoming_birthdays(data, days, today) == UpcomingLoop(data, 1, <<>>, days, today)

\* AddressBook.__str__
book_str(data) ==
    IF Len(data) = 0 THEN MsgBookEmpty
    ELSE join(SepLines, [i \in 1..Len(data) |-> record_str(data[i].rec)])

(***************************************************************************)
(* Command handlers.  A handler body returns [book, exc, val]: the book    *)
(* as the call left it, and what it returned or raised.  input_error turns *)
(* that into [book, out], out being the text the command prints.           *)
(***************************************************************************)
Done(data, v) == [book |-> data, exc |-> "none", val |-> v]
Fail(data, type, msg) == [book |-> data, exc |-> type, val |-> msg]

IntText(n) == <<DigitChars[n + 1]>>

\* "a, b = args": the ValueError of unpacking a list of the wrong length
unpack(args, n) ==
    IF Len(args) < n
    THEN Raise("ValueError",
               TxtNotEnoughValues \o IntText(n) \o TxtGot \o IntText(Len(args)) \o <<")">>)
    ELSE IF Len(args) > n
    THEN Raise("ValueError", TxtTooManyValues \o IntText(n) \o <<")">>)
    ELSE Return(args)

\* input_error
input_error(r) ==
    [book |-> r.book,
     out  |-> IF r.exc = "none" THEN r.val
              ELSE IF r.exc = "ValueError"
              THEN (IF r.val = <<>> THEN MsgNotEnoughArgs ELSE r.val)
              ELSE IF r.exc \in {"AttributeError", "KeyError"} THEN MsgContactNotFound
              ELSE TxtErrorPrefix \o r.val]

\* add_contact with a bug: the phone is validated before the new record is
\* put into the book
add_contact_validate_first(args, data) ==
    LET u == unpack(args, 2)
    IN  IF u.exc # "none" THEN Fail(data, u.exc, u.val)
        ELSE
            LET name == args[1]
                isNew == find(data, name) = 0
                n == Name(name)
                p == Phone(args[2])
            IN  IF isNew /\ n.exc # "none" THEN Fail(data, n.exc, n.val)
                ELSE IF p.exc # "none" THEN Fail(data, p.exc, p.val)
                ELSE
                    LET data1 == IF isNew THEN add_record(data, NewRecord(name)) ELSE data
                        i == find(data1, name)
                    IN  Done([data1 EXCEPT ![i].rec = add_phone(@, p.val).rec],
                             IF isNew THEN MsgContactAdded ELSE MsgContactUpdated)

\* add_contact
add_contact_body(args, data) ==
    LET u == unpack(args, 2)
    IN  IF u.exc # "none" THEN Fail(data, u.exc, u.val)
        ELSE
            LET name == args[1]
                phone == args[2]
                isNew == find(data, name) = 0
                n == Name(name)
            IN  IF isNew /\ n.exc # "none" THEN Fail(data, n.exc, n.val)
                ELSE
                    LET data1 == IF isNew THEN add_record(data, NewRecord(name)) ELSE data
                        message == IF isNew THEN MsgContactAdded ELSE MsgContactUpdated
                        i == find(data1, name)
                        r == add_phone(data1[i].rec, phone)
                        data2 == [data1 EXCEPT ![i].rec = r.rec]
                    IN  IF r.exc # "none" THEN Fail(data2, r.exc, r.msg)
                        ELSE Done(data2, message)

add_contact(args, data) == input_error(add_contact_body(args, data))

\* change_contact
change_contact_body(args, data) ==
    LET u == unpack(args, 3)
    IN  IF u.exc # "none" THEN Fail(data, u.exc, u.val)
        ELSE
            LET i == find(data, args[1])
            IN  IF i = 0 THEN Fail(data, "AttributeError", <<>>)
                ELSE
                    LET r == edit_phone(data[i].rec, args[2], args[3])
                        data1 == [data EXCEPT ![i].rec = r.rec]
                    IN  IF r.exc # "none" THEN Fail(data1, r.exc, r.msg)
                        ELSE Done(data1, MsgPhoneUpdated)

change_contact(args, data) == input_error(change_contact_body(args, data))

\* show_phone
show_phone_body(args, data) ==
    LET u == unpack(args, 1)
    IN  IF u.exc # "none" THEN Fail(data, u.exc, u.val)
        ELSE
            LET i == find(data, args[1])
            IN  IF i = 0 \/ Len(data[i].rec.phones) = 0 THEN Done(data, MsgNoPhones)
                ELSE Done(data, join(SepPhones, data[i].rec.phones))

show_phone(args, data) == input_error(show_phone_body(args, data))

\* show_all
show_all(data) == [book |-> data, out |-> book_str(data)]

\* add_birthday
add_birthday_body(args, data) ==
    LET u == unpack(args, 2)
    IN  IF u.exc # "none" THEN Fail(data, u.exc, u.val)
        ELSE
            LET i == find(data, args[1])
            IN  IF i = 0 THEN Fail(data, "AttributeError", <<>>)
                ELSE
                    LET r == rec_add_birthday(data[i].rec, args[2])
                        data1 == [data EXCEPT ![i].rec = r.rec]
                    IN  IF r.exc # "none" THEN Fail(data1, r.exc, r.msg)
                        ELSE Done(data1, MsgBirthdayAdded)

add_birthday(args, data) == input_error(add_birthday_body(args, data))

\* show_birthday
show_birthday_body(args, data) ==
    LET u == unpack(args, 1)
    IN  IF u.exc # "none" THEN Fail(data, u.exc, u.val)
        ELSE
            LET i == find(data, args[1])
            IN  IF i = 0 \/ ~data[i].rec.birthday.set THEN Done(data, MsgNoBirthday)
                ELSE Done(data, data[i].rec.birthday.value)

show_birthday(args, data) == input_error(show_birthday_body(args, data))

DefaultDays == 7

\* birthdays
birthdays_body(args, data, today) ==
    LET upcoming == get_upcoming_birthdays(data, DefaultDays, today)
    IN  IF upcoming.exc # "none" THEN Fail(data, upcoming.exc, upcoming.val)
        ELSE IF Len(upcoming.val) = 0 THEN Done(data, MsgNoUpcoming)
        ELSE Done(data,
                  join(SepLines,
                       [k \in 1..Len(upcoming.val) |->
                           upcoming.val[k].name \o SepNameDate \o upcoming.val[k].birthday]))

birthdays(args, data, today) == input_error(birthdays_body(args, data, today))

(***************************************************************************)
(* Inputs of the commands.                                                 *)
(***************************************************************************)
Alice == <<"a", "l", "i", "c", "e">>
Bob == <<"b", "o", "b">>
Names == {Alice, Bob}

P1 == <<"1", "2", "3", "4", "5", "6", "7", "8", "9", "0">>
P2 == <<"0", "9", "8", "7", "6", "5", "4", "3", "2", "1">>
PShort == <<"1", "2", "3">>
PhoneInputs == {P1, P2, PShort}

\* 9 June: a Sunday in 2024, a Saturday in 2029
BSummer == <<"0", "9", ".", "0", "6", ".", "2", "0", "2", "0">>
BLeap == <<"2", "9", ".", "0", "2", ".", "2", "0", "2", "0">>
BNewYear == <<"0", "1", ".", "0", "1", ".", "1", "9", "9", "0">>
BNoSuchDay == <<"3", "0", ".", "0", "2", ".", "2", "0", "2", "0">>
BirthdayInputs == {BSummer, BLeap, BNewYear, BNoSuchDay}

\* values of date.today()
Todays ==
    {MkDate(2024, 6, 7), MkDate(2024, 6, 2), MkDate(2024, 6, 1), MkDate(2024, 6, 10),
     MkDate(2029, 6, 5), MkDate(2024, 12, 28), MkDate(2024, 2, 27), MkDate(2024, 3, 1),
     MkDate(2025, 2, 27)}

WindowInputs == {0, 2, DefaultDays}

\* argument lists of every length from 0 to 4
ArityPool ==
    {<<>>, <<Alice>>, <<Alice, P1>>, <<Alice, P1, P2>>, <<Alice, P1, P2, P1>>}

WrongArity(n) == {a \in ArityPool : Len(a) # n}

\* records a caller can build with Record(name), add_phone and add_birthday
BuiltRecords ==
    {[name |-> n, phones |-> ps, birthday |-> b] :
        n \in Names, ps \in {<<>>, <<P1>>, <<P2>>},
        b \in {NoBirthday, SomeBirthday(BSummer)}}

NoDate == [y |-> 0, m |-> 0, d |-> 0]

NoRec == NewRecord(<<>>)

\* the call under way: a command of main with its arguments, or a direct call
\* with its arguments (today is what date.today() returns during it)
Cmd(op, args, today, days) ==
    [op |-> op, args |-> args, today |-> today, days |-> days, rec |-> NoRec]

(***************************************************************************)
(* The state machine: one action per command of main's loop and per direct *)
(* call on the book or on one of its records.  main runs one command at a  *)
(* time: it waits at input() (lastCmd is Idle), runs the handler of the    *)
(* line it read, prints what the handler returned and goes back to         *)
(* input().  prevBook is the book as it was when the command started.      *)
(***************************************************************************)
Idle == Cmd("idle", <<>>, NoDate, 0)

Init ==
    /\ book = <<>>
    /\ prevBook = <<>>
    /\ lastCmd = Idle
    /\ lastResult = Return(<<>>)

\* main's loop is back at input(): the command and its output are gone
Prompt ==
    /\ lastCmd # Idle
    /\ lastCmd' = Idle
    /\ lastResult' = Return(<<>>)
    /\ prevBook' = book
    /\ book' = book

Step(cmd, r) ==
    /\ lastCmd = Idle
    /\ prevBook' = book
    /\ lastCmd' = cmd
    /\ book' = r.book
    /\ lastResult' = Return(r.out)

\* the phone list of a record stays within the bound of the model
Room(name) ==
    IF find(book, name) = 0 THEN TRUE
    ELSE Len(book[find(book, name)].rec.phones) < MaxPhones

AddContact ==
    \E args \in {<<n, p>> : n \in Names, p \in PhoneInputs} \cup WrongArity(2) :
        /\ IF Len(args) = 2 THEN Room(args[1]) ELSE TRUE
        /\ Step(Cmd("add", args, NoDate, 0), add_contact(args, book))

ChangeContact ==
    \E args \in {<<n, o, p>> : n \in Names, o \in PhoneInputs, p \in PhoneInputs}
                    \cup WrongArity(3) :
        Step(Cmd("change", args, NoDate, 0), change_contact(args, book))

ShowPhone ==
    \E args \in {<<n>> : n \in Names} \cup WrongArity(1) :
        Step(Cmd("phone", args, NoDate, 0), show_phone(args, book))

ShowAll == Step(Cmd("all", <<>>, NoDate, 0), show_all(book))

AddBirthday ==
    \E args \in {<<n, b>> : n \in Names, b \in BirthdayInputs} \cup WrongArity(2) :
        Step(Cmd("add-birthday", args, NoDate, 0), add_birthday(args, book))

ShowBirthday ==
    \E args \in {<<n>> : n \in Names} \cup WrongArity(1) :
        Step(Cmd("show-birthday", args, NoDate, 0), show_birthday(args, book))

Birthdays ==
    \E today \in Todays :
        Step(Cmd("birthdays", <<>>, today, DefaultDays), birthdays(<<>>, book, today))

\* a direct call book.get_upcoming_birthdays(days)
GetUpcoming ==
    /\ lastCmd = Idle
    /\ \E today \in Todays, days \in WindowInputs :
        /\ prevBook' = book
        /\ lastCmd' = Cmd("get_upcoming_birthdays", <<>>, today, days)
        /\ book' = book
        /\ lastResult' = get_upcoming_birthdays(book, days, today)

\* a direct call book.add_record(record)
AddRecord ==
    /\ lastCmd = Idle
    /\ \E record \in BuiltRecords :
        /\ prevBook' = book
        /\ lastCmd' = [Cmd("add_record", <<>>, NoDate, 0) EXCEPT !.rec = record]
        /\ book' = add_record(book, record)
        /\ lastResult' = Return(<<>>)

\* a direct call book.delete(name)
Delete ==
    /\ lastCmd = Idle
    /\ \E name \in Names :
        /\ prevBook' = book
        /\ lastCmd' = Cmd("delete", <<name>>, NoDate, 0)
        /\ book' = delete(book, name)
        /\ lastResult' = Return(<<>>)

\* a direct call book.find(name).remove_phone(phone)
RemovePhone ==
    \E name \in Names, phone \in PhoneInputs :
        /\ lastCmd = Idle
        /\ find(book, name) # 0
        /\ prevBook' = book
        /\ lastCmd' = Cmd("remove_phone", <<name, phone>>, NoDate, 0)
        /\ book' = [book EXCEPT ![find(book, name)].rec = remove_phone(@, phone).rec]
        /\ lastResult' = Return(<<>>)

Next ==
    \/ Prompt
    \/ AddContact
    \/ ChangeContact
    \/ ShowPhone
    \/ ShowAll
    \/ AddBirthday
    \/ ShowBirthday
    \/ Birthdays
    \/ GetUpcoming
    \/ AddRecord
    \/ Delete
    \/ RemovePhone

Spec == Init /\ [][Next]_vars

(***************************************************************************)
(* The constructors as pure functions: the specification draws the         *)
(* argument when it starts and the one action constructs the field.        *)
(***************************************************************************)
\* characters put into a phone string that is otherwise ASCII digits
PhoneChars == {"5", "a", "-", " ", "+", "U+0663", "U+00B2"}

\* the string of length n whose i-th character is the digit i % 10, except
\* that position pos (if any) holds c
PhoneString(n, pos, c) ==
    [i \in 1..n |-> IF i = pos THEN c ELSE DigitChars[(i % 10) + 1]]

PhoneStrings ==
    {PhoneString(n, pos, c) : n \in 0..MaxPhoneInputLen, pos \in 0..MaxPhoneInputLen,
                              c \in PhoneChars}

InitPhone ==
    /\ book = <<>>
    /\ prevBook = <<>>
    /\ lastCmd \in {Cmd("input", <<p>>, NoDate, 0) : p \in PhoneStrings}
    /\ lastResult = Return(<<>>)

ConstructPhone ==
    /\ lastCmd.op = "input"
    /\ lastCmd' = [lastCmd EXCEPT !.op = "Phone"]
    /\ lastResult' = Phone(lastCmd.args[1])
    /\ UNCHANGED <<book, prevBook>>

SpecPhone == InitPhone /\ [][ConstructPhone]_vars

DayParts ==
    {<<"2", "9">>,
     <<"3", "0">>,
     <<"3", "1">>,
     <<"0", "1">>,
     <<"1">>,
     <<" ", "1">>,
     <<"0", "0">>,
     <<"0">>,
     <<"3", "2">>,
     <<"1", "U+0663">>,
     <<"2", "U+00B2">>,
     <<>>,
     <<"0", "0", "1">>,
     <<"1", "a">>}

MonthParts ==
    {<<"0", "2">>,
     <<"2">>,
     <<"0", "4">>,
     <<"1", "2">>,
     <<"1", "3">>,
     <<"0", "0">>,
     <<" ", "2">>,
     <<"0", "U+0663">>}

YearParts ==
    {<<"2", "0", "2", "0">>,
     <<"2", "0", "2", "1">>,
     <<"1", "9", "0", "0">>,
     <<"2", "0", "0", "0">>,
     <<"0", "0", "0", "0">>,
     <<"2", "0", "2">>,
     <<"2", "0", "2", "0", "0">>,
     <<"2", "0", "U+0663", "0">>}

DateSeparators == {<<".">>, <<"-">>, <<>>}

DateStrings ==
    {d \o s1 \o m \o s2 \o y \o t :
        d \in DayParts, s1 \in DateSeparators, m \in MonthParts,
        s2 \in DateSeparators, y \in YearParts, t \in {<<>>, <<" ">>}}

InitBirthday ==
    /\ book = <<>>
    /\ prevBook = <<>>
    /\ lastCmd \in {Cmd("input", <<v>>, NoDate, 0) : v \in DateStrings}
    /\ lastResult = Return(<<>>)

ConstructBirthday ==
    /\ lastCmd.op = "input"
    /\ lastCmd' = [lastCmd EXCEPT !.op = "Birthday"]
    /\ lastResult' = Birthday(lastCmd.args[1])
    /\ UNCHANGED <<book, prevBook>>

SpecBirthday == InitBirthday /\ [][ConstructBirthday]_vars

(***************************************************************************)
(* What the documentation says, stated without the code's operators.       *)
(***************************************************************************)
\* a phone as documented: exactly ten ASCII decimal digits
IsTenAsciiDigits(p) == Len(p) = PhoneLen /\ \A i \in 1..Len(p) : p[i] \in AsciiDigits

AsciiNumber(t) ==
    1000 * DigitValue(t[1]) + 100 * DigitValue(t[2]) + 10 * DigitValue(t[3]) + DigitValue(t[4])

\* a birthday as documented: DD.MM.YYYY, two, two and four ASCII digits that
\* denote a date of the calendar
IsDDMMYYYY(v) ==
    /\ Len(v) = 10
    /\ v[3] = "." /\ v[6] = "."
    /\ \A i \in {1, 2, 4, 5, 7, 8, 9, 10} : v[i] \in AsciiDigits
    /\ IsDate(AsciiNumber(SubSeq(v, 7, 10)),
              AsciiNumber(<<"0", "0", v[4], v[5]>>),
              AsciiNumber(<<"0", "0", v[1], v[2]>>))

\* the number of phones of ps equal to p
Count(ps, p) == Cardinality({i \in 1..Len(ps) : ps[i] = p})

\* the phones of ps written one after the other, "; " before each but the first
RECURSIVE PhonesText(_)
PhonesText(ps) ==
    IF Len(ps) = 0 THEN <<>>
    ELSE IF Len(ps) = 1 THEN ps[1]
    ELSE PhonesText(SubSeq(ps, 1, Len(ps) - 1)) \o <<";", " ">> \o ps[Len(ps)]

\* the month and day of the stored birthday v
BirthdayOf(v) == date_obj(v).val

\* the next birthday is k days after today
OccursIn(v, today, k) ==
    AddDays(today, k).m = BirthdayOf(v).m /\ AddDays(today, k).d = BirthdayOf(v).d

\* the next birthday is within w days of today
InWindow(v, today, w) == \E k \in 0..w : OccursIn(v, today, k)

\* the date to report: the occurrence, moved to Monday from a weekend
ReportedDate(v, today, w) ==
    LET k == CHOOSE j \in 0..w : OccursIn(v, today, j) /\ \A h \in 0..(j - 1) : ~OccursIn(v, today, h)
        occ == AddDays(today, k)
        shift == IF (toordinal(occ) % 7) = 6 THEN 2
                 ELSE IF (toordinal(occ) % 7) = 0 THEN 1 ELSE 0
    IN  AddDays(occ, shift)

\* the positions of the records of data to report, in insertion order
RECURSIVE Ascending(_)
Ascending(S) ==
    IF S = {} THEN <<>>
    ELSE LET lo == CHOOSE x \in S : \A y \in S : x <= y
         IN  <<lo>> \o Ascending(S \ {lo})

Due(data, today, w) ==
    Ascending({i \in 1..Len(data) :
                 /\ data[i].rec.birthday.set
                 /\ InWindow(data[i].rec.birthday.value, today, w)})

ExpectedUpcoming(data, today, w) ==
    [k \in 1..Len(Due(data, today, w)) |->
        LET r == data[Due(data, today, w)[k]].rec
        IN  [name |-> r.name,
             birthday |-> strftime(ReportedDate(r.birthday.value, today, w))]]

RECURSIVE LinesText(_)
LinesText(up) ==
    IF Len(up) = 0 THEN <<>>
    ELSE (IF Len(up) = 1 THEN <<>> ELSE LinesText(SubSeq(up, 1, Len(up) - 1)) \o <<"\n">>)
            \o up[Len(up)].name \o <<":", " ">> \o up[Len(up)].birthday

ExpectedBirthdaysText(data, today) ==
    IF Len(Due(data, today, DefaultDays)) = 0 THEN MsgNoUpcoming
    ELSE LinesText(ExpectedUpcoming(data, today, DefaultDays))

\* some record of data has its birthday on 29 February
HasLeapDay(data) ==
    \E i \in 1..Len(data) :
        /\ data[i].rec.birthday.set
        /\ BirthdayOf(data[i].rec.birthday.value).m = 2
        /\ BirthdayOf(data[i].rec.birthday.value).d = 29

\* The calls are the ones of the model, a phone list stays within the bound,
\* and only a direct call of get_upcoming_birthdays lets an exception out.
TypeOK ==
    /\ lastCmd.op \in {"idle", "add", "change", "phone", "all", "add-birthday",
                       "show-birthday", "birthdays", "get_upcoming_birthdays",
                       "add_record", "delete", "remove_phone"}
    /\ \A i \in 1..Len(book) : Len(book[i].rec.phones) <= MaxPhones + 1
    /\ lastCmd.op # "get_upcoming_birthdays" => lastResult.exc = "none"

(***************************************************************************)
(* C1                                                                      *)
(***************************************************************************)
\* C1: get_upcoming_birthdays(w) returns, for every book and every today,
\* the records whose next birthday is 0..w days away, in insertion order,
\* each with that occurrence moved to Monday when it falls on a weekend
\* (the window being tested on the unmoved date).
UpcomingAsSpecified ==
    lastCmd.op = "get_upcoming_birthdays" =>
        /\ lastResult.exc = "none"
        /\ lastResult.val = ExpectedUpcoming(book, lastCmd.today, lastCmd.days)

\* The same statement for the books that hold no 29 February birthday: the
\* code meets it there.
UpcomingWithoutLeapDay ==
    (lastCmd.op = "get_upcoming_birthdays" /\ ~HasLeapDay(book)) =>
        /\ lastResult.exc = "none"
        /\ lastResult.val = ExpectedUpcoming(book, lastCmd.today, lastCmd.days)

\* A Sunday occurrence exactly w days away is reported, dated w + 1 days away.
UpcomingSundayAtEdge ==
    /\ lastCmd.op = "get_upcoming_birthdays"
    /\ lastCmd.today = MkDate(2024, 6, 7)
    /\ lastCmd.days = 2
    /\ lastResult.exc = "none"
    /\ Len(lastResult.val) = 1
    /\ lastResult.val[1].birthday = <<"1", "0", ".", "0", "6", ".", "2", "0", "2", "4">>

(***************************************************************************)
(* C2                                                                      *)
(***************************************************************************)
\* C2: the birthdays command returns "No upcoming birthdays." when no
\* record's next birthday is within 7 days, otherwise one line
\* "{name}: {DD.MM.YYYY}" per such record in insertion order, and never any
\* other text.
BirthdaysAsSpecified ==
    lastCmd.op = "birthdays" =>
        lastResult.val = ExpectedBirthdaysText(book, lastCmd.today)

\* The same statement for the books that hold no 29 February birthday.
BirthdaysWithoutLeapDay ==
    (lastCmd.op = "birthdays" /\ ~HasLeapDay(book)) =>
        lastResult.val = ExpectedBirthdaysText(book, lastCmd.today)

(***************************************************************************)
(* C3                                                                      *)
(***************************************************************************)
\* C3: add(name, phone) with a valid phone returns "Contact added." exactly
\* when the book had no record for name and "Contact updated." exactly when
\* it had one; either way phone is appended to the record's phones, none is
\* removed or merged, and phone(name) then returns all of them in order,
\* joined by "; ".
AddContactAppends ==
    (lastCmd.op = "add" /\ Len(lastCmd.args) = 2 /\ IsTenAsciiDigits(lastCmd.args[2])) =>
        LET name == lastCmd.args[1]
            phone == lastCmd.args[2]
            i0 == KeyIndex(prevBook, name)
            i == KeyIndex(book, name)
            before == IF i0 = 0 THEN <<>> ELSE prevBook[i0].rec.phones
        IN  /\ (lastResult.val = MsgContactAdded) <=> (i0 = 0)
            /\ (lastResult.val = MsgContactUpdated) <=> (i0 # 0)
            /\ i # 0
            /\ book[i].rec.phones = before \o <<phone>>
            /\ show_phone(<<name>>, book).out = PhonesText(before \o <<phone>>)
            /\ show_phone(<<name>>, book).book = book

\* add of a phone the record already holds: the record then holds it twice
AddContactKeepsDuplicate ==
    /\ lastCmd.op = "add"
    /\ lastCmd.args = <<Alice, P1>>
    /\ lastResult.val = MsgContactUpdated
    /\ KeyIndex(prevBook, Alice) # 0
    /\ prevBook[KeyIndex(prevBook, Alice)].rec.phones = <<P1>>
    /\ book[KeyIndex(book, Alice)].rec.phones = <<P1, P1>>

(***************************************************************************)
(* C4                                                                      *)
(***************************************************************************)
\* C4: change(name, old, new) returns "Contact not found." when the book has
\* no record for name; "Phone {old} not found" when the record has no phone
\* equal to old, whatever new is; and, when a phone equals old and new is
\* valid, "Phone updated.", the first phone equal to old being replaced by
\* new where it stands and nothing else of the phone list changing.
ChangeContactReplaces ==
    (lastCmd.op = "change" /\ Len(lastCmd.args) = 3) =>
        LET name == lastCmd.args[1]
            old == lastCmd.args[2]
            new == lastCmd.args[3]
            i0 == KeyIndex(prevBook, name)
        IN  IF i0 = 0 THEN lastResult.val = MsgContactNotFound
            ELSE
                LET before == prevBook[i0].rec.phones
                    after == book[KeyIndex(book, name)].rec.phones
                    hits == {k \in 1..Len(before) : before[k] = old}
                IN  IF hits = {}
                    THEN lastResult.val = <<"P", "h", "o", "n", "e", " ">> \o old
                                            \o <<" ", "n", "o", "t", " ", "f", "o", "u", "n", "d">>
                    ELSE IsTenAsciiDigits(new) =>
                            /\ lastResult.val = MsgPhoneUpdated
                            /\ Len(after) = Len(before)
                            /\ \A k \in 1..Len(before) :
                                  after[k] = IF k \in hits /\ \A h \in hits : k <= h
                                             THEN new ELSE before[k]

\* a change of a phone the record holds twice: only the first is replaced
ChangeContactFirstOfTwo ==
    /\ lastCmd.op = "change"
    /\ lastCmd.args = <<Alice, P1, P2>>
    /\ KeyIndex(prevBook, Alice) # 0
    /\ prevBook[KeyIndex(prevBook, Alice)].rec.phones = <<P1, P1>>
    /\ book[KeyIndex(book, Alice)].rec.phones = <<P2, P1>>
    /\ lastResult.val = MsgPhoneUpdated

(***************************************************************************)
(* C5                                                                      *)
(***************************************************************************)
\* C5: add(name, phone) for a name without a record and a phone that fails
\* validation returns "Phone must contain exactly 10 digits" and leaves a
\* record for name with no phones in the book; phone(name) then returns
\* "No phones found for this contact." and the next add(name, validPhone)
\* returns "Contact updated.".
AddInvalidPhoneKeepsRecord ==
    (/\ lastCmd.op = "add"
     /\ Len(lastCmd.args) = 2
     /\ KeyIndex(prevBook, lastCmd.args[1]) = 0
     /\ Phone(lastCmd.args[2]).exc # "none") =>
        LET name == lastCmd.args[1]
        IN  /\ lastResult.val = MsgPhoneInvalid
            /\ book = prevBook \o <<[key |-> name,
                                     rec |-> [name |-> name, phones |-> <<>>,
                                              birthday |-> NoBirthday]]>>
            /\ show_phone(<<name>>, book).out = MsgNoPhones
            /\ \A p \in {q \in PhoneInputs : IsTenAsciiDigits(q)} :
                  add_contact(<<name, p>>, book).out = MsgContactUpdated

\* a first add with a phone that is too short
AddInvalidPhoneDone ==
    /\ lastCmd.op = "add"
    /\ lastCmd.args = <<Bob, PShort>>
    /\ KeyIndex(prevBook, Bob) = 0
    /\ KeyIndex(book, Bob) # 0
    /\ lastResult.val = MsgPhoneInvalid

(***************************************************************************)
(* C6                                                                      *)
(***************************************************************************)
\* C6: Phone(p) succeeds if and only if p is exactly ten ASCII decimal
\* digits; every other string fails with "Phone must contain exactly 10
\* digits".
PhoneAsSpecified ==
    lastCmd.op = "Phone" =>
        IF IsTenAsciiDigits(lastCmd.args[1])
        THEN lastResult = Return(lastCmd.args[1])
        ELSE lastResult = Raise("ValueError", MsgPhoneInvalid)

\* What the code does: it accepts ten characters that str.isdigit() accepts.
PhoneAcceptsIsdigit ==
    lastCmd.op = "Phone" =>
        LET p == lastCmd.args[1]
        IN  IF Len(p) = 10 /\ \A i \in 1..Len(p) : p[i] \in AsciiDigits \cup UnicodeDigits
            THEN lastResult = Return(p)
            ELSE lastResult = Raise("ValueError", MsgPhoneInvalid)

(***************************************************************************)
(* C7                                                                      *)
(***************************************************************************)
\* C7: Birthday(d) succeeds if and only if d is DD.MM.YYYY, a two-digit day,
\* a two-digit month and a four-digit year that denote a date of the
\* calendar; every other string, one with a one-digit day or month
\* included, fails with "Invalid date format. Use DD.MM.YYYY".
BirthdayAsSpecified ==
    lastCmd.op = "Birthday" =>
        IF IsDDMMYYYY(lastCmd.args[1])
        THEN lastResult = Return(lastCmd.args[1])
        ELSE lastResult = Raise("ValueError", MsgDateInvalid)

\* What the code does for the strings that are DD.MM.YYYY in form or fail to
\* be a date: accepted when documented, and never another message.
BirthdayAcceptsDocumented ==
    lastCmd.op = "Birthday" =>
        /\ IsDDMMYYYY(lastCmd.args[1]) => lastResult = Return(lastCmd.args[1])
        /\ lastResult.exc # "none" => lastResult = Raise("ValueError", MsgDateInvalid)
        /\ lastResult.exc = "none" => IsDate(date_obj(lastCmd.args[1]).val.y,
                                             date_obj(lastCmd.args[1]).val.m,
                                             date_obj(lastCmd.args[1]).val.d)

(***************************************************************************)
(* C8                                                                      *)
(***************************************************************************)
\* C8 as stated: after removePhone(p) on any record, duplicates allowed,
\* findPhone(p) returns absent.
RemoveThenFindAbsent ==
    lastCmd.op = "remove_phone" =>
        find_phone(book[KeyIndex(book, lastCmd.args[1])].rec, lastCmd.args[2]) = 0

\* C8, amended: after addPhone(p) with a valid p, findPhone(p) returns a
\* phone whose value is p; removePhone(p) removes the first phone equal to
\* p and no other, so that afterwards findPhone(p) returns absent exactly
\* when the record held at most one phone equal to p before the call.
PhoneRoundTrip ==
    /\ (lastCmd.op = "add" /\ Len(lastCmd.args) = 2 /\ IsTenAsciiDigits(lastCmd.args[2])) =>
          LET r == book[KeyIndex(book, lastCmd.args[1])].rec
              p == lastCmd.args[2]
          IN  /\ find_phone(r, p) # 0
              /\ r.phones[find_phone(r, p)] = p
    /\ lastCmd.op = "remove_phone" =>
          LET before == prevBook[KeyIndex(prevBook, lastCmd.args[1])].rec.phones
              r == book[KeyIndex(book, lastCmd.args[1])].rec
              p == lastCmd.args[2]
          IN  /\ (find_phone(r, p) = 0) <=> (Count(before, p) <= 1)
              /\ IF Count(before, p) = 0 THEN r.phones = before
                 ELSE \E k \in 1..Len(before) :
                        /\ before[k] = p
                        /\ \A j \in 1..(k - 1) : before[j] # p
                        /\ r.phones = [i \in 1..(Len(before) - 1) |->
                                          IF i < k THEN before[i] ELSE before[i + 1]]

\* removePhone(p) on a record that holds p once: findPhone(p) is then absent
RemovedTheOnlyOne ==
    /\ lastCmd.op = "remove_phone"
    /\ lastCmd.args = <<Alice, P1>>
    /\ prevBook[KeyIndex(prevBook, Alice)].rec.phones = <<P2, P1>>
    /\ book[KeyIndex(book, Alice)].rec.phones = <<P2>>
    /\ find_phone(book[KeyIndex(book, Alice)].rec, P1) = 0

(***************************************************************************)
(* C9                                                                      *)
(***************************************************************************)
\* C9: in every reachable state each key of the book is the name of the
\* record stored under it and no two items share a key; add_record of a
\* name already present replaces that item where it stands and leaves the
\* number of items unchanged.
BookKeysAreNames ==
    /\ \A i \in 1..Len(book) : book[i].key = book[i].rec.name
    /\ \A i, j \in 1..Len(book) : book[i].key = book[j].key => i = j
    /\ (lastCmd.op = "add_record" /\ KeyIndex(prevBook, lastCmd.rec.name) # 0) =>
          /\ Len(book) = Len(prevBook)
          /\ \A i \in 1..Len(book) :
                book[i] = IF i = KeyIndex(prevBook, lastCmd.rec.name)
                          THEN [key |-> lastCmd.rec.name, rec |-> lastCmd.rec]
                          ELSE prevBook[i]

\* add_record of another record for the first of two names in the book
AddRecordOverwrote ==
    /\ lastCmd.op = "add_record"
    /\ Len(prevBook) = 2
    /\ prevBook[1].key = lastCmd.rec.name
    /\ prevBook[1].rec # lastCmd.rec
    /\ Len(book) = 2
    /\ book[1].rec = lastCmd.rec

(***************************************************************************)
(* C10                                                                     *)
(***************************************************************************)
\* C10: a change that returns anything but "Phone updated.", an add-birthday
\* that returns anything but "Birthday added.", and every phone,
\* show-birthday, all and birthdays command leave the book exactly as it
\* was: the same keys in the same order, each record's phones and birthday
\* unchanged.
FailedCommandsLeaveBook ==
    (\/ lastCmd.op = "change" /\ lastResult.val # MsgPhoneUpdated
     \/ lastCmd.op = "add-birthday" /\ lastResult.val # MsgBirthdayAdded
     \/ lastCmd.op \in {"phone", "show-birthday", "all", "birthdays"}) =>
        /\ Len(book) = Len(prevBook)
        /\ \A i \in 1..Len(book) :
              /\ book[i].key = prevBook[i].key
              /\ book[i].rec.name = prevBook[i].rec.name
              /\ book[i].rec.phones = prevBook[i].rec.phones
              /\ book[i].rec.birthday = prevBook[i].rec.birthday

\* an add-birthday with a date that does not exist, for a record whose
\* birthday was set before
FailedAddBirthdayDone ==
    /\ lastCmd.op = "add-birthday"
    /\ lastCmd.args = <<Alice, BNoSuchDay>>
    /\ lastResult.val = MsgDateInvalid
    /\ KeyIndex(prevBook, Alice) # 0
    /\ prevBook[KeyIndex(prevBook, Alice)].rec.birthday = SomeBirthday(BSummer)

====
